---- MODULE Spec2Model ----
(***************************************************************************)
(* Model of the badge creator (src/index.js): the image transform state,   *)
(* the wheel / mouse / touch handlers that change it, image loading, and   *)
(* the asynchronous draw() / download() export sequence.                   *)
(*                                                                         *)
(* Numbers.  The program computes with JavaScript numbers.  They are       *)
(* modelled as extended rationals <<n, d>> in lowest terms with d >= 0:    *)
(* d > 0 is the finite value n/d, <<1,0>> is Infinity, <<-1,0>> is         *)
(* -Infinity and <<0,0>> is NaN, with the IEEE rules for the operations    *)
(* the program uses (200/0 = Infinity, 0*Infinity = NaN, Math.max and      *)
(* Math.min return NaN when an argument is NaN).  Arithmetic on finite     *)
(* values is exact, except that the product imageScale*zoomFactor is       *)
(* rounded to the nearest multiple of 1/ScaleDen, as a floating-point      *)
(* product is rounded to the nearest representable number.                 *)
(***************************************************************************)
EXTENDS Integers, Sequences, FiniteSets, TLC

VARIABLES
    imageScale,       \* src/index.js:15
    imageOffsetX,     \* src/index.js:18
    imageOffsetY,     \* src/index.js:21
    baseCoverScale,   \* src/index.js:24
    naturalWidth,     \* src/index.js:27
    naturalHeight,    \* src/index.js:28
    preview,          \* portraitImage.style.transform
    isDragging,       \* src/index.js:136
    lastX,            \* src/index.js:137
    lastY,            \* src/index.js:138
    portraitSrc,      \* portraitImage.src: the file the <img> shows
    loadPending,      \* an onload of portraitImage is still to fire
    overlayPresent,   \* the document holds #overlay-svg
    overlayInlined,   \* inlineStyles has rewritten the overlay's style attributes
    overlayDom,       \* the overlay's text and its elements' style attributes
    svgStrings,       \* what the calls of getSvgString returned, in order
    canvas,           \* what #canvas-image holds: the draws since the last clear
    renders,          \* one record per download() call, in call order
    exported,         \* the PNGs handed to the download link, in order
    budget            \* events the environment may still deliver

transformVars == <<imageScale, imageOffsetX, imageOffsetY, baseCoverScale,
                   naturalWidth, naturalHeight>>
dragVars == <<isDragging, lastX, lastY>>
imageVars == <<portraitSrc, loadPending>>
overlayVars == <<overlayPresent, overlayInlined, overlayDom, svgStrings>>
renderVars == <<canvas, renders, exported>>
vars == <<transformVars, preview, dragVars, imageVars, overlayVars,
          renderVars, budget>>

-----------------------------------------------------------------------------
(* Bounds of the model *)

\* wheel events that zoom in, and that zoom out, delivered in Spec
MaxZoomIn == 1
MaxZoomOut == 1
\* mousemove / touchmove events delivered while a drag is active
MaxMoves == 1
\* files the user uploads
MaxUploads == 1
\* clicks on the download button
MaxExports == 1

\* wheel events that zoom in, and that zoom out, delivered in SpecEdit
MaxEditZoomIn == 17
MaxEditZoomOut == 1

\* imageScale is kept to a precision of 1/ScaleDen
ScaleDen == 1000

-----------------------------------------------------------------------------
(* JavaScript numbers as extended rationals *)

Abs(a) == IF a < 0 THEN -a ELSE a

Sgn(a) == IF a < 0 THEN -1 ELSE IF a > 0 THEN 1 ELSE 0

RECURSIVE GCD(_, _)
GCD(a, b) == IF b = 0 THEN a ELSE GCD(b, a % b)

\* n/d in lowest terms; a zero denominator gives Infinity, -Infinity or NaN
Norm(n, d) ==
    IF d = 0 THEN <<Sgn(n), 0>>
    ELSE LET g == GCD(Abs(n), Abs(d))
             s == Sgn(d)
         IN  <<(s * n) \div g, (s * d) \div g>>

Num(i) == <<i, 1>>
NaN == <<0, 0>>
Infinity == <<1, 0>>

IsNaN(x) == x = NaN
IsFinite(x) == x[2] > 0

LCM(a, b) == (a \div GCD(a, b)) * b

\* x + y
Add(x, y) ==
    IF IsNaN(x) \/ IsNaN(y) THEN NaN
    ELSE IF ~IsFinite(x) THEN (IF ~IsFinite(y) /\ y # x THEN NaN ELSE x)
    ELSE IF ~IsFinite(y) THEN y
    ELSE LET l == LCM(x[2], y[2])
         IN  Norm(x[1] * (l \div x[2]) + y[1] * (l \div y[2]), l)

\* -x
Neg(x) == <<-x[1], x[2]>>

\* x - y
Sub(x, y) == Add(x, Neg(y))

\* x * y
Mul(x, y) == Norm(x[1] * y[1], x[2] * y[2])

\* x / y, y not negative zero
Div(x, y) ==
    IF IsNaN(x) \/ IsNaN(y) THEN NaN
    ELSE IF ~IsFinite(y) THEN (IF IsFinite(x) THEN Num(0) ELSE NaN)
    ELSE IF y[1] = 0 THEN Norm(x[1], 0)
    ELSE Mul(x, Norm(y[2], y[1]))

\* x < y (false when either is NaN)
Less(x, y) ==
    IF IsNaN(x) \/ IsNaN(y) THEN FALSE
    ELSE IF ~IsFinite(x) \/ ~IsFinite(y)
         THEN (IF ~IsFinite(x) /\ ~IsFinite(y) THEN x[1] < y[1]
               ELSE IF ~IsFinite(x) THEN x[1] < 0 ELSE y[1] > 0)
    ELSE LET l == LCM(x[2], y[2])
         IN  x[1] * (l \div x[2]) < y[1] * (l \div y[2])

\* x <= y (false when either is NaN)
Leq(x, y) == ~IsNaN(x) /\ ~IsNaN(y) /\ ~Less(y, x)

\* Math.max(x, y)
MathMax(x, y) ==
    IF IsNaN(x) \/ IsNaN(y) THEN NaN ELSE IF Less(x, y) THEN y ELSE x

\* Math.min(x, y)
MathMin(x, y) ==
    IF IsNaN(x) \/ IsNaN(y) THEN NaN ELSE IF Less(y, x) THEN y ELSE x

\* a positive finite x rounded to the nearest multiple of 1/ScaleDen
RoundScale(x) ==
    Norm((2 * x[1] * ScaleDen + x[2]) \div (2 * x[2]), ScaleDen)

-----------------------------------------------------------------------------
(* Program constants *)

PREVIEW_SIZE == 200
CANVAS_SIZE == 500

\* the literals of handleZoom
ZoomOutFactor == <<9, 10>>
ZoomInFactor == <<11, 10>>
MinScale == Num(1)
MaxScale == Num(5)

-----------------------------------------------------------------------------
(* Inputs *)

\* The files the <img> may be given.  "placeholder" and "broken" are what
\* the src named in the page may be; the others are uploads.  "nodims"
\* decodes but reports no intrinsic size (an SVG without width and height);
\* "broken" does not decode: onerror fires and, on a complete element,
\* naturalWidth is 0.
Files == {"placeholder", "wide", "tall", "nodims", "broken"}
Uploads == {"wide", "tall", "nodims"}

Decodes(f) == f # "broken"

NaturalWidthOf(f) ==
    CASE f = "placeholder" -> 200
      [] f = "wide" -> 800
      [] f = "tall" -> 300
      [] OTHER -> 0

NaturalHeightOf(f) ==
    CASE f = "placeholder" -> 200
      [] f = "wide" -> 400
      [] f = "tall" -> 400
      [] OTHER -> 0

\* pointer positions (clientX, clientY) an event may carry
Points == {<<0, 0>>, <<40, 10>>}

\* event.deltaY of a wheel event
WheelDeltas == {-100, 0, 100}

\* e.touches.length of a touch event
TouchCounts == {1, 2}

-----------------------------------------------------------------------------
(* The transform state as a value *)

Transform == [imageScale |-> imageScale,
              imageOffsetX |-> imageOffsetX,
              imageOffsetY |-> imageOffsetY,
              baseCoverScale |-> baseCoverScale,
              naturalWidth |-> naturalWidth,
              naturalHeight |-> naturalHeight]

\* the assignment of a transform value to the module-level variables
Store(t) ==
    /\ imageScale' = t.imageScale
    /\ imageOffsetX' = t.imageOffsetX
    /\ imageOffsetY' = t.imageOffsetY
    /\ baseCoverScale' = t.baseCoverScale
    /\ naturalWidth' = t.naturalWidth
    /\ naturalHeight' = t.naturalHeight

\* mutant of CoverScale: the smaller of the two axis scales ("contain" fit)
CoverScaleContain(w, h) ==
    LET scaleX == Div(Num(PREVIEW_SIZE), Num(w))
        scaleY == Div(Num(PREVIEW_SIZE), Num(h))
    IN  MathMin(scaleX, scaleY)

\* Math.max(scaleX, scaleY) of resetImageTransform
CoverScale(w, h) ==
    LET scaleX == Div(Num(PREVIEW_SIZE), Num(w))
        scaleY == Div(Num(PREVIEW_SIZE), Num(h))
    IN  MathMax(scaleX, scaleY)

\* resetImageTransform, without its updateImagePreview call
ResetImageTransform(w, h) ==
    [imageScale |-> Num(1),
     imageOffsetX |-> Num(0),
     imageOffsetY |-> Num(0),
     baseCoverScale |-> CoverScale(w, h),
     naturalWidth |-> w,
     naturalHeight |-> h]

\* the translate(..) scale(..) that updateImagePreview writes
UpdateImagePreview(t) ==
    LET finalScale == Mul(t.baseCoverScale, t.imageScale)
        scaledWidth == Mul(Num(t.naturalWidth), finalScale)
        scaledHeight == Mul(Num(t.naturalHeight), finalScale)
        centerX == Div(Sub(Num(PREVIEW_SIZE), scaledWidth), Num(2))
        centerY == Div(Sub(Num(PREVIEW_SIZE), scaledHeight), Num(2))
    IN  [translateX |-> Add(centerX, t.imageOffsetX),
         translateY |-> Add(centerY, t.imageOffsetY),
         scale |-> finalScale]

\* mutant of ClampOffset: an offset beyond its limit is eased halfway back
\* towards the limit
ClampOffsetEasesBack(t) ==
    LET finalScale == Mul(t.baseCoverScale, t.imageScale)
        scaledWidth == Mul(Num(t.naturalWidth), finalScale)
        scaledHeight == Mul(Num(t.naturalHeight), finalScale)
        overflowX == Div(Sub(scaledWidth, Num(PREVIEW_SIZE)), Num(2))
        overflowY == Div(Sub(scaledHeight, Num(PREVIEW_SIZE)), Num(2))
        maxOffsetX == MathMax(Num(0), overflowX)
        maxOffsetY == MathMax(Num(0), overflowY)
        clampedX == MathMax(Neg(maxOffsetX), MathMin(maxOffsetX, t.imageOffsetX))
        clampedY == MathMax(Neg(maxOffsetY), MathMin(maxOffsetY, t.imageOffsetY))
    IN  [t EXCEPT
           !.imageOffsetX = Div(Add(t.imageOffsetX, clampedX), Num(2)),
           !.imageOffsetY = Div(Add(t.imageOffsetY, clampedY), Num(2))]

\* clampOffset
ClampOffset(t) ==
    LET finalScale == Mul(t.baseCoverScale, t.imageScale)
        scaledWidth == Mul(Num(t.naturalWidth), finalScale)
        scaledHeight == Mul(Num(t.naturalHeight), finalScale)
        overflowX == Div(Sub(scaledWidth, Num(PREVIEW_SIZE)), Num(2))
        overflowY == Div(Sub(scaledHeight, Num(PREVIEW_SIZE)), Num(2))
        maxOffsetX == MathMax(Num(0), overflowX)
        maxOffsetY == MathMax(Num(0), overflowY)
    IN  [t EXCEPT
           !.imageOffsetX = MathMax(Neg(maxOffsetX),
                                    MathMin(maxOffsetX, t.imageOffsetX)),
           !.imageOffsetY = MathMax(Neg(maxOffsetY),
                                    MathMin(maxOffsetY, t.imageOffsetY))]

\* the zoomFactor of handleZoom
ZoomFactor(deltaY) == IF deltaY > 0 THEN ZoomOutFactor ELSE ZoomInFactor

\* mutant of ClampScale: the upper limit is not applied
ClampScaleNoUpper(newScale) == MathMax(MinScale, newScale)

\* Math.max(1.0, Math.min(5.0, newScale)) of handleZoom
ClampScale(newScale) == MathMax(MinScale, MathMin(MaxScale, newScale))

\* mutant of ZoomedScale: the old scale is clamped, the product is not
ZoomedScaleClampsFirst(scale, deltaY) ==
    RoundScale(Mul(ClampScale(scale), ZoomFactor(deltaY)))

\* the imageScale that handleZoom stores
ZoomedScale(scale, deltaY) ==
    LET newScale == RoundScale(Mul(scale, ZoomFactor(deltaY)))
    IN  ClampScale(newScale)

\* the transform after the two += of a move handler and its clampOffset
Panned(t, deltaX, deltaY) ==
    ClampOffset([t EXCEPT !.imageOffsetX = Add(@, Num(deltaX)),
                          !.imageOffsetY = Add(@, Num(deltaY))])

-----------------------------------------------------------------------------
(* Event budget *)

CanSpend(k) == budget[k] > 0

Spend(k) == budget' = [budget EXCEPT ![k] = @ - 1]

\* the budget a wheel event is counted against
WheelKind(deltaY) == IF deltaY > 0 THEN "zoomOut" ELSE "zoomIn"

-----------------------------------------------------------------------------
(* Gesture handlers *)

\* wheel listener on #image-preview
HandleZoom(deltaY) ==
    /\ CanSpend(WheelKind(deltaY))
    /\ Spend(WheelKind(deltaY))
    /\ \E t \in {ClampOffset([Transform EXCEPT
                               !.imageScale = ZoomedScale(imageScale, deltaY)])} :
           /\ Store(t)
           /\ preview' = UpdateImagePreview(t)
    /\ UNCHANGED <<dragVars, imageVars, overlayVars, renderVars>>

\* mousedown listener (a press is delivered only while a move may follow)
MouseDown(p) ==
    /\ CanSpend("move")
    /\ isDragging' = TRUE
    /\ lastX' = p[1]
    /\ lastY' = p[2]
    /\ UNCHANGED <<transformVars, preview, imageVars, overlayVars,
                   renderVars, budget>>

\* mutant of MouseMove: the handler does not return when no drag is active
MouseMoveWhileIdle(p) ==
    /\ CanSpend("move")
    /\ Spend("move")
    /\ lastX' = p[1]
    /\ lastY' = p[2]
    /\ \E t \in {Panned(Transform, p[1] - lastX, p[2] - lastY)} :
           /\ Store(t)
           /\ preview' = UpdateImagePreview(t)
    /\ UNCHANGED <<isDragging, imageVars, overlayVars, renderVars>>

\* mousemove listener
MouseMove(p) ==
    /\ isDragging
    /\ CanSpend("move")
    /\ Spend("move")
    /\ lastX' = p[1]
    /\ lastY' = p[2]
    /\ \E t \in {Panned(Transform, p[1] - lastX, p[2] - lastY)} :
           /\ Store(t)
           /\ preview' = UpdateImagePreview(t)
    /\ UNCHANGED <<isDragging, imageVars, overlayVars, renderVars>>

\* mouseup listener
MouseUp ==
    /\ isDragging' = FALSE
    /\ UNCHANGED <<transformVars, preview, lastX, lastY, imageVars,
                   overlayVars, renderVars, budget>>

\* touchstart listener (a touch is delivered only while a move may follow)
TouchStart(n, p) ==
    /\ CanSpend("move")
    /\ IF n = 1
       THEN /\ isDragging' = TRUE
            /\ lastX' = p[1]
            /\ lastY' = p[2]
       ELSE UNCHANGED dragVars
    /\ UNCHANGED <<transformVars, preview, imageVars, overlayVars,
                   renderVars, budget>>

\* touchmove listener
TouchMove(n, p) ==
    /\ isDragging /\ n = 1
    /\ CanSpend("move")
    /\ Spend("move")
    /\ lastX' = p[1]
    /\ lastY' = p[2]
    /\ \E t \in {Panned(Transform, p[1] - lastX, p[2] - lastY)} :
           /\ Store(t)
           /\ preview' = UpdateImagePreview(t)
    /\ UNCHANGED <<isDragging, imageVars, overlayVars, renderVars>>

\* touchend listener
TouchEnd ==
    /\ isDragging' = FALSE
    /\ UNCHANGED <<transformVars, preview, lastX, lastY, imageVars,
                   overlayVars, renderVars, budget>>

-----------------------------------------------------------------------------
(* Image loading *)

\* change listener of #portrait-image-upload and the reader.onload it sets:
\* the <img> is given the uploaded file as its src
Upload(f) ==
    /\ CanSpend("upload")
    /\ Spend("upload")
    /\ portraitSrc' = f
    /\ loadPending' = TRUE
    /\ UNCHANGED <<transformVars, preview, dragVars, overlayVars, renderVars>>

\* portraitImage.onload: fires once the src has decoded
ImageLoaded ==
    /\ loadPending
    /\ Decodes(portraitSrc)
    /\ loadPending' = FALSE
    /\ \E t \in {ResetImageTransform(NaturalWidthOf(portraitSrc),
                                    NaturalHeightOf(portraitSrc))} :
           /\ Store(t)
           /\ preview' = UpdateImagePreview(t)
    /\ UNCHANGED <<portraitSrc, dragVars, overlayVars, renderVars, budget>>

-----------------------------------------------------------------------------
(* The overlay: styles, inlineStyles and getSvgString *)

\* The element tree under #overlay-svg: 1 is the root <svg>, 2 is
\* #left-bottom-stop, 3 is the <text> and 4 is #overlay-text-path inside it.
OverlayRoot == 1
OverlayNodes == {1, 2, 3, 4}

\* element.children, in document order
Children(n) ==
    CASE n = 1 -> <<2, 3>>
      [] n = 3 -> <<4>>
      [] OTHER -> <<>>

\* the parent element, 0 for the root
ParentOf(n) ==
    CASE n = 2 -> 1
      [] n = 3 -> 1
      [] n = 4 -> 3
      [] OTHER -> 0

\* the properties a computed style enumerates, in its order
StyleProps == <<"fill", "font-size", "stop-color">>

Inherited(p) == p \in {"fill", "font-size"}

InitialValue(p) == IF p = "font-size" THEN "16px" ELSE "black"

\* what the page's stylesheet declares for a node, "" for nothing
Sheet(n, p) ==
    CASE n = 1 /\ p = "font-size" -> "8px"
      [] n = 3 /\ p = "font-size" -> "2em"
      [] n = 3 /\ p = "fill" -> "white"
      [] OTHER -> ""

\* 2em of a font size
Doubled(px) ==
    CASE px = "8px" -> "16px"
      [] px = "16px" -> "32px"
      [] OTHER -> "64px"

\* values of the color inputs and of the text input
BadgeColors == {"blue"}
BadgeTexts == {"Rust"}

\* String.prototype.toUpperCase
ToUpperCase(v) == IF v = "Rust" THEN "RUST" ELSE v

\* the value a style attribute (a sequence of <<property, value>>
\* declarations) gives property p: its last declaration, "" for none
Declared(decls, p) ==
    LET idx == {i \in DOMAIN decls : decls[i][1] = p}
    IN  IF idx = {} THEN ""
        ELSE decls[CHOOSE i \in idx : \A j \in idx : j <= i][2]

\* element.style[p] = v: the declaration of p is replaced, or added
SetDecl(decls, p, v) ==
    IF Declared(decls, p) = "" THEN Append(decls, <<p, v>>)
    ELSE [i \in DOMAIN decls |-> IF decls[i][1] = p THEN <<p, v>> ELSE decls[i]]

\* getComputedStyle(n).getPropertyValue(p), for the style attributes style:
\* the cascade (style attribute, then stylesheet, then inheritance or the
\* initial value) with relative lengths resolved
RECURSIVE GetPropertyValue(_, _, _)
GetPropertyValue(style, n, p) ==
    LET inline == Declared(style[n], p)
        inherited == IF ParentOf(n) # 0 /\ Inherited(p)
                     THEN GetPropertyValue(style, ParentOf(n), p)
                     ELSE InitialValue(p)
        specified == IF inline # "" THEN inline
                     ELSE IF Sheet(n, p) # "" THEN Sheet(n, p)
                     ELSE inherited
    IN  IF specified = "2em"
        THEN Doubled(IF ParentOf(n) # 0
                     THEN GetPropertyValue(style, ParentOf(n), "font-size")
                     ELSE InitialValue("font-size"))
        ELSE specified

\* the text of inlineStyles' style variable for element n, lines 238-243
InlinedDecls(style, n) ==
    [i \in DOMAIN StyleProps |->
        <<StyleProps[i], GetPropertyValue(style, n, StyleProps[i])>>]

\* mutant of StyleAttribute: the new declarations are added to the style
\* attribute the element has
StyleAttributeAppended(style, n) == style[n] \o InlinedDecls(style, n)

\* the style attribute inlineStyles sets on element n, line 244
StyleAttribute(style, n) == InlinedDecls(style, n)

\* inlineStyles(n) on the state acc = [style, visited]: the element's own
\* attribute first, then its children in order
RECURSIVE InlineStyles(_, _)
RECURSIVE InlineChildren(_, _)
InlineStyles(acc, n) ==
    InlineChildren([style |-> [acc.style EXCEPT ![n] = StyleAttribute(acc.style, n)],
                    visited |-> Append(acc.visited, n)],
                   Children(n))

\* the loop over element.children, lines 246-249
InlineChildren(acc, cs) ==
    IF cs = <<>> THEN acc
    ELSE InlineChildren(InlineStyles(acc, Head(cs)), Tail(cs))

\* XMLSerializer.serializeToString: the markup of element n and its subtree
RECURSIVE SerializeToString(_, _)
RECURSIVE SerializeChildren(_, _)
SerializeToString(dom, n) ==
    <<[node |-> n,
       style |-> dom.style[n],
       text |-> IF n = 4 THEN dom.text ELSE ""]>>
    \o SerializeChildren(dom, Children(n))

SerializeChildren(dom, cs) ==
    IF cs = <<>> THEN <<>>
    ELSE SerializeToString(dom, Head(cs)) \o SerializeChildren(dom, Tail(cs))

\* getSvgString(#overlay-svg): the overlay after inlineStyles, the string
\* returned, and the elements in the order inlineStyles set their attribute
GetSvgString(dom) ==
    LET acc == InlineStyles([style |-> dom.style, visited |-> <<>>], OverlayRoot)
        inlined == [dom EXCEPT !.style = acc.style]
    IN  [dom |-> inlined,
         str |-> SerializeToString(inlined, OverlayRoot),
         visited |-> acc.visited]

\* the overlay as the page's markup gives it: the stop carries its color in
\* a style attribute, the other elements have none; rev counts the edits
InitialOverlay ==
    [text |-> "TECHLAHOMA",
     style |-> [n \in OverlayNodes |->
                  IF n = 2 THEN <<<<"stop-color", "red">>>> ELSE <<>>],
     rev |-> 0]

\* input listener of #badge-text-input
BadgeTextInput(v) ==
    /\ overlayPresent
    /\ CanSpend("edit")
    /\ Spend("edit")
    /\ overlayDom' = [overlayDom EXCEPT !.text = ToUpperCase(v),
                                        !.rev = @ + 1]
    /\ UNCHANGED <<transformVars, preview, dragVars, imageVars,
                   overlayPresent, overlayInlined, svgStrings, renderVars>>

\* input listener of #badge-bg-color-input
BadgeBgColorInput(c) ==
    /\ overlayPresent
    /\ CanSpend("edit")
    /\ Spend("edit")
    /\ overlayDom' = [overlayDom EXCEPT
                        !.style[2] = SetDecl(@, "stop-color", c),
                        !.rev = @ + 1]
    /\ UNCHANGED <<transformVars, preview, dragVars, imageVars,
                   overlayPresent, overlayInlined, svgStrings, renderVars>>

\* input listener of #badge-text-color-input
BadgeTextColorInput(c) ==
    /\ overlayPresent
    /\ CanSpend("edit")
    /\ Spend("edit")
    /\ overlayDom' = [overlayDom EXCEPT
                        !.style[4] = SetDecl(@, "fill", c),
                        !.rev = @ + 1]
    /\ UNCHANGED <<transformVars, preview, dragVars, imageVars,
                   overlayPresent, overlayInlined, svgStrings, renderVars>>

\* the getSvgString call of draw(), line 301
Serialized ==
    IF overlayPresent
    THEN \E g \in {GetSvgString(overlayDom)} :
            /\ overlayDom' = g.dom
            /\ svgStrings' = Append(svgStrings, [rev |-> overlayDom.rev,
                                                 str |-> g.str,
                                                 visited |-> g.visited])
    ELSE UNCHANGED <<overlayDom, svgStrings>>

-----------------------------------------------------------------------------
(* Export: download() and draw() *)

\* mutant of DrawRect: the pan offset is added after the scaling to the
\* canvas, in preview pixels
DrawRectOffsetUnscaled(t) ==
    LET previewToCanvas == Div(Num(CANVAS_SIZE), Num(PREVIEW_SIZE))
        finalScale == Mul(t.baseCoverScale, t.imageScale)
        canvasScale == Mul(finalScale, previewToCanvas)
        scaledWidth == Mul(Num(t.naturalWidth), finalScale)
        scaledHeight == Mul(Num(t.naturalHeight), finalScale)
        centerX == Div(Sub(Num(PREVIEW_SIZE), scaledWidth), Num(2))
        centerY == Div(Sub(Num(PREVIEW_SIZE), scaledHeight), Num(2))
    IN  [x |-> Add(Mul(centerX, previewToCanvas), t.imageOffsetX),
         y |-> Add(Mul(centerY, previewToCanvas), t.imageOffsetY),
         w |-> Mul(Num(t.naturalWidth), canvasScale),
         h |-> Mul(Num(t.naturalHeight), canvasScale)]

\* the destination rectangle draw() computes, lines 281-297
DrawRect(t) ==
    LET previewToCanvas == Div(Num(CANVAS_SIZE), Num(PREVIEW_SIZE))
        finalScale == Mul(t.baseCoverScale, t.imageScale)
        canvasScale == Mul(finalScale, previewToCanvas)
        scaledWidth == Mul(Num(t.naturalWidth), finalScale)
        scaledHeight == Mul(Num(t.naturalHeight), finalScale)
        centerX == Div(Sub(Num(PREVIEW_SIZE), scaledWidth), Num(2))
        centerY == Div(Sub(Num(PREVIEW_SIZE), scaledHeight), Num(2))
    IN  [x |-> Mul(Add(centerX, t.imageOffsetX), previewToCanvas),
         y |-> Mul(Add(centerY, t.imageOffsetY), previewToCanvas),
         w |-> Mul(Num(t.naturalWidth), canvasScale),
         h |-> Mul(Num(t.naturalHeight), canvasScale)]

FiniteRect(r) ==
    IsFinite(r.x) /\ IsFinite(r.y) /\ IsFinite(r.w) /\ IsFinite(r.h)

\* ctx.drawImage(image, x, y, w, h): a call with an infinite or NaN argument
\* returns without drawing
DrawImage(cv, d) == IF FiniteRect(d.rect) THEN Append(cv, d) ELSE cv

\* the full-canvas rectangle of the overlay draw, line 308
FullCanvas ==
    [x |-> Num(0), y |-> Num(0), w |-> Num(CANVAS_SIZE), h |-> Num(CANVAS_SIZE)]

\* the call ctx.drawImage(image, drawX, drawY, drawWidth, drawHeight) of
\* line 299, for render r, with the values the variables hold when it runs
PhotoDraw(r) ==
    [op |-> "photo", rid |-> r, src |-> renders[r].src,
     rect |-> DrawRect(Transform), used |-> Transform]

\* the call ctx.drawImage(svgImage, 0, 0, canvas.width, canvas.height) of
\* line 308
OverlayDraw(r) ==
    [op |-> "overlay", rid |-> r, src |-> "overlay-svg",
     rect |-> FullCanvas, used |-> Transform]

\* the drawImage calls of draw() between its first and its second await
PhotoStage(r) == <<PhotoDraw(r)>>

\* mutant of OverlayStage: the photo is drawn again, over the overlay
OverlayStagePhotoLast(r) == <<OverlayDraw(r), PhotoDraw(r)>>

\* the drawImage calls of draw() after its second await
OverlayStage(r) == <<OverlayDraw(r)>>

\* the canvas after the calls ds, in order
RECURSIVE Paint(_, _)
Paint(cv, ds) ==
    IF ds = <<>> THEN cv ELSE Paint(DrawImage(cv, Head(ds)), Tail(ds))

\* the calls ds as entries of a render's record of what it has done
StepNames(ds) ==
    [i \in DOMAIN ds |-> IF ds[i].op = "photo" THEN "drawPhoto"
                         ELSE "drawOverlay"]

\* click listener of #download-button: download() calls draw(), which
\* clears the canvas and runs to its first await (lines 271-278)
DownloadClick ==
    /\ CanSpend("export")
    /\ Spend("export")
    /\ canvas' = <<>>
    /\ renders' = Append(renders, [pc |-> "awaitPhoto",
                                   src |-> portraitSrc,
                                   atClick |-> Transform,
                                   steps |-> <<"clear">>])
    /\ UNCHANGED <<transformVars, preview, dragVars, imageVars, overlayVars,
                   exported>>

\* mutant of PhotoLoaded: draw() resets the transform from the decoded photo
PhotoLoadedResets(r) ==
    /\ renders[r].pc = "awaitPhoto"
    /\ Decodes(renders[r].src)
    /\ canvas' = Paint(canvas, PhotoStage(r))
    /\ renders' = [renders EXCEPT
                     ![r].pc = IF overlayPresent THEN "awaitOverlay"
                               ELSE "failed",
                     ![r].steps = @ \o <<"photoDecoded">>
                                    \o StepNames(PhotoStage(r))
                                    \o <<IF overlayPresent THEN "serialize"
                                         ELSE "serializeThrew">>]
    /\ overlayInlined' = (overlayInlined \/ overlayPresent)
    /\ Serialized
    /\ \E t \in {ResetImageTransform(NaturalWidthOf(renders[r].src),
                                    NaturalHeightOf(renders[r].src))} :
           /\ Store(t)
           /\ preview' = UpdateImagePreview(t)
    /\ UNCHANGED <<dragVars, imageVars, overlayPresent, exported, budget>>

\* img.onload of the photo of render r: draw() resumes at line 280, draws
\* the photo and calls getSvgString, which throws on a missing #overlay-svg
\* (getComputedStyle(null)) and otherwise inlines the styles; draw() then
\* waits for the overlay to decode
PhotoLoaded(r) ==
    /\ renders[r].pc = "awaitPhoto"
    /\ Decodes(renders[r].src)
    /\ canvas' = Paint(canvas, PhotoStage(r))
    /\ renders' = [renders EXCEPT
                     ![r].pc = IF overlayPresent THEN "awaitOverlay"
                               ELSE "failed",
                     ![r].steps = @ \o <<"photoDecoded">>
                                    \o StepNames(PhotoStage(r))
                                    \o <<IF overlayPresent THEN "serialize"
                                         ELSE "serializeThrew">>]
    /\ overlayInlined' = (overlayInlined \/ overlayPresent)
    /\ Serialized
    /\ UNCHANGED <<transformVars, preview, dragVars, imageVars,
                   overlayPresent, exported, budget>>

\* img.onerror of the photo of render r: draw() and download() reject
PhotoFailed(r) ==
    /\ renders[r].pc = "awaitPhoto"
    /\ ~Decodes(renders[r].src)
    /\ renders' = [renders EXCEPT ![r].pc = "failed",
                                  ![r].steps = Append(@, "photoFailed")]
    /\ UNCHANGED <<transformVars, preview, dragVars, imageVars, overlayVars,
                   canvas, exported, budget>>

\* img.onload of the overlay of render r: draw() draws it and returns, and
\* download() encodes the canvas and clicks the link (lines 308, 318-323)
OverlayLoaded(r) ==
    /\ renders[r].pc = "awaitOverlay"
    /\ LET cv == Paint(canvas, OverlayStage(r))
       IN  /\ canvas' = cv
           /\ exported' = Append(exported, [rid |-> r, image |-> cv])
    /\ renders' = [renders EXCEPT
                     ![r].pc = "done",
                     ![r].steps = @ \o <<"overlayDecoded">>
                                    \o StepNames(OverlayStage(r))
                                    \o <<"encode">>]
    /\ UNCHANGED <<transformVars, preview, dragVars, imageVars, overlayVars,
                   budget>>

\* mutant of OverlayFailed: download() goes on to encode the canvas
OverlayFailedStillExports(r) ==
    /\ renders[r].pc = "awaitOverlay"
    /\ renders' = [renders EXCEPT
                     ![r].pc = "failed",
                     ![r].steps = @ \o <<"overlayFailed", "encode">>]
    /\ exported' = Append(exported, [rid |-> r, image |-> canvas])
    /\ UNCHANGED <<transformVars, preview, dragVars, imageVars, overlayVars,
                   canvas, budget>>

\* img.onerror of the overlay of render r: draw() and download() reject
OverlayFailed(r) ==
    /\ renders[r].pc = "awaitOverlay"
    /\ renders' = [renders EXCEPT ![r].pc = "failed",
                                  ![r].steps = Append(@, "overlayFailed")]
    /\ UNCHANGED <<transformVars, preview, dragVars, imageVars, overlayVars,
                   canvas, exported, budget>>

-----------------------------------------------------------------------------
(* Specification *)

\* the module-level initial values, lines 15-28
InitialTransform ==
    [imageScale |-> Num(1),
     imageOffsetX |-> Num(0),
     imageOffsetY |-> Num(0),
     baseCoverScale |-> Num(1),
     naturalWidth |-> 0,
     naturalHeight |-> 0]

\* the <img> before updateImagePreview has run: no transform is set, which
\* displays it as translate(0px, 0px) scale(1) does
NoTransform == [translateX |-> Num(0), translateY |-> Num(0), scale |-> Num(1)]

\* the state once the script has run, with event budget b and the overlay
\* element present or not as overlays allows
InitWith(b, overlays) ==
    /\ budget = b
    /\ isDragging = FALSE
    /\ lastX = 0
    /\ lastY = 0
    /\ overlayPresent \in overlays
    /\ overlayInlined = FALSE
    /\ overlayDom = InitialOverlay
    /\ svgStrings = <<>>
    /\ canvas = <<>>
    /\ renders = <<>>
    /\ exported = <<>>
    \* lines 369-377: the placeholder is complete when the script runs (it
    \* has loaded, or it is broken) and the transform is reset at once, or it
    \* is still loading and its onload is set
    /\ \E f \in {"placeholder", "broken"}, complete \in BOOLEAN :
         /\ portraitSrc = f
         /\ complete \/ Decodes(f)
         /\ loadPending = ~complete
         /\ LET t == IF complete
                     THEN ResetImageTransform(
                              IF Decodes(f) THEN NaturalWidthOf(f) ELSE 0,
                              IF Decodes(f) THEN NaturalHeightOf(f) ELSE 0)
                     ELSE InitialTransform
            IN  /\ imageScale = t.imageScale
                /\ imageOffsetX = t.imageOffsetX
                /\ imageOffsetY = t.imageOffsetY
                /\ baseCoverScale = t.baseCoverScale
                /\ naturalWidth = t.naturalWidth
                /\ naturalHeight = t.naturalHeight
                /\ preview = IF complete THEN UpdateImagePreview(t)
                             ELSE NoTransform

Init ==
    InitWith([zoomIn |-> MaxZoomIn, zoomOut |-> MaxZoomOut, move |-> MaxMoves,
              upload |-> MaxUploads, export |-> MaxExports], BOOLEAN)

Gesture ==
    \/ \E d \in WheelDeltas : HandleZoom(d)
    \/ \E p \in Points : MouseDown(p)
    \/ \E p \in Points : MouseMove(p)
    \/ MouseUp
    \/ \E n \in TouchCounts, p \in Points : TouchStart(n, p)
    \/ \E n \in TouchCounts, p \in Points : TouchMove(n, p)
    \/ TouchEnd

Load ==
    \/ \E f \in Uploads : Upload(f)
    \/ ImageLoaded

Render ==
    \/ DownloadClick
    \/ \E r \in DOMAIN renders : PhotoLoaded(r)
    \/ \E r \in DOMAIN renders : PhotoFailed(r)
    \/ \E r \in DOMAIN renders : OverlayLoaded(r)
    \/ \E r \in DOMAIN renders : OverlayFailed(r)

Next == Gesture \/ Load \/ Render

Spec == Init /\ [][Next]_vars

\* Editing alone (no export), with a longer run of wheel events
InitEdit ==
    InitWith([zoomIn |-> MaxEditZoomIn, zoomOut |-> MaxEditZoomOut,
              move |-> MaxMoves, upload |-> 0, export |-> 0], {TRUE})

NextEdit == Gesture \/ ImageLoaded

SpecEdit == InitEdit /\ [][NextEdit]_vars

\* Editing and uploading (no export)
InitLoad ==
    InitWith([zoomIn |-> MaxZoomIn, zoomOut |-> MaxZoomOut, move |-> MaxMoves,
              upload |-> MaxUploads, export |-> 0], {TRUE})

NextLoad == Gesture \/ Load

SpecLoad == InitLoad /\ [][NextLoad]_vars

\* Exporting while the wheel zooms (no drag, no upload)
InitExport ==
    InitWith([zoomIn |-> MaxZoomIn, zoomOut |-> MaxZoomOut, move |-> 0,
              upload |-> 0, export |-> MaxExports], BOOLEAN)

NextExport ==
    \/ \E d \in WheelDeltas : HandleZoom(d)
    \/ ImageLoaded
    \/ Render

SpecExport == InitExport /\ [][NextExport]_vars

-----------------------------------------------------------------------------
(* Properties *)

PositiveImage == naturalWidth > 0 /\ naturalHeight > 0

\* the rectangle of the scaled image in the preview, from the transform the
\* <img> carries, contains the viewport square [0,200] x [0,200]
ViewportCovered ==
    LET left == preview.translateX
        top == preview.translateY
        width == Mul(Num(naturalWidth), preview.scale)
        height == Mul(Num(naturalHeight), preview.scale)
    IN  /\ Leq(left, Num(0))
        /\ Leq(top, Num(0))
        /\ Leq(Num(200), Add(left, width))
        /\ Leq(Num(200), Add(top, height))

\* C1: once an image with positive natural width and height is loaded and
\* the preview rectangle contains the viewport, every following event (wheel,
\* mouse, touch, image load) leaves the preview rectangle containing the
\* viewport.
C1_NoGapPreserved == [][(PositiveImage /\ ViewportCovered) => ViewportCovered']_vars

\* C2: imageScale is within [1.0, 5.0] in every reachable state.
C2_ZoomBounds == Leq(Num(1), imageScale) /\ Leq(imageScale, Num(5))

\* C2 witness: the run of zoom-in ticks has hit the upper limit, and one
\* more tick has been delivered there
C2_AtUpperLimit == imageScale = Num(5) /\ budget.zoomIn = 0

\* C3: for an image with positive natural dimensions the stored
\* baseCoverScale makes both scaled dimensions at least 200 and the smaller
\* one exactly 200; an 800 x 400 image gives 1/2.
C3_CoverFit ==
    PositiveImage =>
        LET smaller == IF naturalWidth < naturalHeight THEN naturalWidth
                       ELSE naturalHeight
        IN  /\ Mul(baseCoverScale, Num(smaller)) = Num(200)
            /\ Leq(Num(200), Mul(baseCoverScale, Num(naturalWidth)))
            /\ Leq(Num(200), Mul(baseCoverScale, Num(naturalHeight)))
            /\ (naturalWidth = 800 /\ naturalHeight = 400
                  => baseCoverScale = <<1, 2>>)

\* C3 witness: the 800 x 400 image has loaded
C3_WideLoaded ==
    naturalWidth = 800 /\ naturalHeight = 400 /\ baseCoverScale = <<1, 2>>

\* C4: an image load that reports a natural width or height of zero leaves
\* the transform state as it was before that load.
C4_DegenerateLoadRejected ==
    [][(/\ loadPending /\ ~loadPending'
        /\ (NaturalWidthOf(portraitSrc) = 0 \/ NaturalHeightOf(portraitSrc) = 0))
       => UNCHANGED transformVars]_vars

\* C5: the rectangle a render paints the photo into is the one computed from
\* the transform state as it was when the export was requested.
C5_DrawUsesClickState ==
    \A i \in DOMAIN canvas :
        canvas[i].op = "photo" =>
            canvas[i].rect = DrawRect(renders[canvas[i].rid].atClick)

\* C6: the rectangle draw() paints the photo into equals the preview
\* rectangle of updateImagePreview for the same transform state, multiplied
\* by 500/200 on every coordinate.
C6_GeometryConsistent ==
    \A i \in DOMAIN canvas :
        canvas[i].op = "photo" =>
            LET t == canvas[i].used
                p == UpdateImagePreview(t)
                d == canvas[i].rect
            IN  /\ d.x = Mul(p.translateX, <<5, 2>>)
                /\ d.y = Mul(p.translateY, <<5, 2>>)
                /\ d.w = Mul(Mul(Num(t.naturalWidth), p.scale), <<5, 2>>)
                /\ d.h = Mul(Mul(Num(t.naturalHeight), p.scale), <<5, 2>>)

\* C6 witness: a photo has been painted from a zoomed and panned transform
C6_ZoomedPannedDraw ==
    \E i \in DOMAIN canvas :
        /\ canvas[i].op = "photo"
        /\ canvas[i].used.imageScale # Num(1)
        /\ canvas[i].used.imageOffsetX # Num(0)
        /\ canvas[i].used.imageOffsetY # Num(0)

\* C7: in every render the canvas is cleared first and only then, the photo
\* is drawn only after its decode, the overlay is drawn only after the photo
\* draw and the overlay's decode, and no draw of that render follows its
\* overlay draw; on the canvas a render's photo lies under its overlay.
C7_DrawOrder ==
    /\ \A r \in DOMAIN renders :
         LET st == renders[r].steps
         IN  /\ st[1] = "clear"
             /\ \A i \in DOMAIN st :
                  /\ st[i] = "clear" => i = 1
                  /\ st[i] = "drawPhoto" =>
                        \E j \in 1..(i - 1) : st[j] = "photoDecoded"
                  /\ st[i] = "drawOverlay" =>
                        /\ \E j \in 1..(i - 1) : st[j] = "drawPhoto"
                        /\ \E j \in 1..(i - 1) : st[j] = "overlayDecoded"
                        /\ \A j \in (i + 1)..Len(st) :
                             st[j] \notin {"drawPhoto", "drawOverlay"}
    /\ \A i, j \in DOMAIN canvas :
         (/\ canvas[i].rid = canvas[j].rid
          /\ canvas[i].op = "photo"
          /\ canvas[j].op = "overlay") => i < j

\* C7 witness: a render has run to its end
C7_RenderCompleted ==
    \E r \in DOMAIN renders :
        renders[r].steps = <<"clear", "photoDecoded", "drawPhoto", "serialize",
                             "overlayDecoded", "drawOverlay", "encode">>

\* C8: a render whose photo or overlay decode failed has encoded nothing and
\* exported no file, and every exported file comes from a render that
\* completed its photo draw, then its overlay draw, before encoding.
C8_NoPartialOutput ==
    /\ \A r \in DOMAIN renders :
         renders[r].pc = "failed" =>
            /\ \A e \in DOMAIN exported : exported[e].rid # r
            /\ \A i \in DOMAIN renders[r].steps : renders[r].steps[i] # "encode"
    /\ \A e \in DOMAIN exported :
         LET st == renders[exported[e].rid].steps
         IN  /\ renders[exported[e].rid].pc = "done"
             /\ \E i, j, k \in DOMAIN st :
                  /\ i < j /\ j < k
                  /\ st[i] = "drawPhoto"
                  /\ st[j] = "drawOverlay"
                  /\ st[k] = "encode"

\* C8 witness: the overlay decode failed after the photo was drawn: the
\* canvas holds the photo alone and nothing was exported
C8_FailedAfterPhoto ==
    \E r \in DOMAIN renders :
        /\ renders[r].pc = "failed"
        /\ \E i \in DOMAIN renders[r].steps : renders[r].steps[i] = "overlayFailed"
        /\ Len(canvas) = 1
        /\ exported = <<>>

\* C9: no step of draw() or download(), on success or on failure, changes
\* imageScale, imageOffsetX, imageOffsetY, baseCoverScale, naturalWidth or
\* naturalHeight.
C9_RenderReadOnly ==
    [][(renders' # renders \/ canvas' # canvas \/ exported' # exported)
       => UNCHANGED transformVars]_vars

\* C9 witness: a render has failed while the transform was zoomed
C9_FailedWhileZoomed ==
    /\ \E r \in DOMAIN renders : renders[r].pc = "failed"
    /\ imageScale # Num(1)

\* C10: with the overlay element absent, an export attempt draws nothing on
\* the canvas, neither photo nor overlay, and exports no file.
C10_MissingOverlayDrawsNothing ==
    ~overlayPresent =>
        /\ \A r \in DOMAIN renders :
             \A i \in DOMAIN renders[r].steps :
                 renders[r].steps[i] \notin {"drawPhoto", "drawOverlay"}
        /\ canvas = <<>>
        /\ exported = <<>>

\* C11: every completed image load leaves naturalWidth and naturalHeight
\* equal to the new image's dimensions, baseCoverScale equal to its cover
\* scale (the overflow is zero on one axis and not negative on the other),
\* imageScale = 1.0 and both offsets 0, with the preview centred.
C11_ResetOnLoad ==
    [][(loadPending /\ ~loadPending') =>
          LET w == NaturalWidthOf(portraitSrc)
              h == NaturalHeightOf(portraitSrc)
              overflowX == Div(Sub(Mul(Num(w), baseCoverScale'), Num(200)), Num(2))
              overflowY == Div(Sub(Mul(Num(h), baseCoverScale'), Num(200)), Num(2))
          IN  /\ naturalWidth' = w
              /\ naturalHeight' = h
              /\ imageScale' = Num(1)
              /\ imageOffsetX' = Num(0)
              /\ imageOffsetY' = Num(0)
              /\ MathMin(overflowX, overflowY) = Num(0)
              /\ preview'.translateX = Neg(overflowX)
              /\ preview'.translateY = Neg(overflowY)
              /\ preview'.scale = baseCoverScale']_vars

\* C12: a wheel tick that zooms in stores clamp(scale * 1.1) and a wheel tick
\* that zooms out stores clamp(scale * 1/1.1), the clamp being into
\* [1.0, 5.0], so that a zoom-in and a zoom-out with neither clamp active
\* cancel each other.
C12_ZoomStep ==
    [][\A d \in WheelDeltas \ {0} :
          HandleZoom(d) =>
             LET ratio == IF d > 0 THEN Div(Num(1), <<11, 10>>) ELSE <<11, 10>>
                 newScale == RoundScale(Mul(imageScale, ratio))
             IN  imageScale' = MathMax(Num(1), MathMin(Num(5), newScale))]_vars

-----------------------------------------------------------------------------
(* clampOffset on arbitrary transform states *)

\* successive calls of clampOffset in SpecClamp
MaxClampCalls == 2

\* the transform states clampOffset is called on: zoom levels, offsets in
\* and out of range, image sizes and cover scales, freely combined
ClampScales == {Num(1), <<11, 10>>, Num(5)}
ClampOffsets == {Num(-150), Num(-40), Num(0), Num(40), Num(150)}
ClampSizes == {<<200, 200>>, <<800, 400>>, <<300, 400>>, <<0, 0>>}
ClampCoverScales == {<<1, 2>>, <<2, 3>>, Num(1), Infinity}

\* a call of clampOffset()
ClampOffsetCall ==
    /\ CanSpend("clamp")
    /\ Spend("clamp")
    /\ \E t \in {ClampOffset(Transform)} : Store(t)
    /\ UNCHANGED <<preview, dragVars, imageVars, overlayVars, renderVars>>

\* a handler is about to call clampOffset: the transform variables hold any
\* of the values above and the preview has not been updated yet
InitClamp ==
    /\ budget = [clamp |-> MaxClampCalls]
    /\ imageScale \in ClampScales
    /\ imageOffsetX \in ClampOffsets
    /\ imageOffsetY \in ClampOffsets
    /\ baseCoverScale \in ClampCoverScales
    /\ \E size \in ClampSizes :
         /\ naturalWidth = size[1]
         /\ naturalHeight = size[2]
    /\ preview = NoTransform
    /\ isDragging = FALSE
    /\ lastX = 0
    /\ lastY = 0
    /\ portraitSrc = "placeholder"
    /\ loadPending = FALSE
    /\ overlayPresent = TRUE
    /\ overlayInlined = FALSE
    /\ overlayDom = InitialOverlay
    /\ svgStrings = <<>>
    /\ canvas = <<>>
    /\ renders = <<>>
    /\ exported = <<>>

NextClamp == ClampOffsetCall

SpecClamp == InitClamp /\ [][NextClamp]_vars

\* C13: a call of clampOffset that follows another call of clampOffset
\* changes nothing, and every call of clampOffset leaves imageScale,
\* baseCoverScale, naturalWidth and naturalHeight as they were.
C13_ClampIdempotent ==
    [][/\ budget.clamp < MaxClampCalls => UNCHANGED transformVars
       /\ UNCHANGED <<imageScale, baseCoverScale, naturalWidth,
                      naturalHeight>>]_vars

\* C13 witness: clampOffset has run twice on the 800 x 400 image at cover
\* fit, and has cut the offsets to the limits 100 and 0
C13_ClampedTwice ==
    /\ budget.clamp = 0
    /\ naturalWidth = 800 /\ naturalHeight = 400
    /\ baseCoverScale = <<1, 2>> /\ imageScale = Num(1)
    /\ imageOffsetX = Num(100)
    /\ imageOffsetY = Num(0)

-----------------------------------------------------------------------------
(* Editing the badge and exporting, with overlapping exports *)

\* edits of the badge text and colors, and clicks on the download button,
\* in SpecBadge
MaxBadgeEdits == 1
MaxBadgeExports == 2

InitBadge ==
    InitWith([zoomIn |-> 0, zoomOut |-> 0, move |-> 0, upload |-> 0,
              export |-> MaxBadgeExports, edit |-> MaxBadgeEdits], {TRUE})

OverlayEdit ==
    \/ \E v \in BadgeTexts : BadgeTextInput(v)
    \/ \E c \in BadgeColors : BadgeBgColorInput(c)
    \/ \E c \in BadgeColors : BadgeTextColorInput(c)

NextBadge == OverlayEdit \/ ImageLoaded \/ Render

SpecBadge == InitBadge /\ [][NextBadge]_vars

\* C14: two calls of getSvgString with no edit of the overlay's text or
\* colors between them return identical strings; every call sets the style
\* attribute of each element exactly once, the root first and every element
\* after its parent, in document order.
C14_SerializationDeterministic ==
    /\ \A i, j \in DOMAIN svgStrings :
         svgStrings[i].rev = svgStrings[j].rev
            => svgStrings[i].str = svgStrings[j].str
    /\ \A i \in DOMAIN svgStrings :
         LET v == svgStrings[i].visited
         IN  /\ v[1] = OverlayRoot
             /\ Len(v) = Cardinality(OverlayNodes)
             /\ {v[k] : k \in DOMAIN v} = OverlayNodes
             /\ \A k \in DOMAIN v :
                  ParentOf(v[k]) # 0 => \E m \in 1..(k - 1) : v[m] = ParentOf(v[k])
             /\ v = [k \in DOMAIN svgStrings[i].str |-> svgStrings[i].str[k].node]

\* C14 witness: getSvgString has run twice with no edit in between, after an
\* edit of the text color, and the first call rewrote the style attributes
C14_SerializedTwice ==
    /\ Len(svgStrings) >= 2
    /\ svgStrings[1].rev = 1
    /\ svgStrings[2].rev = 1
    /\ Declared(svgStrings[1].str[4].style, "fill") \in BadgeColors
    /\ svgStrings[1].str[1].style # InitialOverlay.style[1]

\* C15: entering Dragging (a press or a one-finger touch start) and leaving
\* it (a release or a touch end) do not move the image; a move event is
\* handled only while Dragging, and then each offset becomes the clamp of
\* the offset plus the distance from the last recorded position, nothing
\* else of the transform changing; every other step that is not a wheel
\* tick or an image load leaves the whole transform state unchanged.
C15_DragSession ==
    [][/\ isDragging' # isDragging => UNCHANGED <<transformVars, preview>>
       /\ budget.move' # budget.move =>
             LET finalScale == Mul(baseCoverScale, imageScale)
                 maxX == MathMax(Num(0),
                           Div(Sub(Mul(Num(naturalWidth), finalScale), Num(200)), Num(2)))
                 maxY == MathMax(Num(0),
                           Div(Sub(Mul(Num(naturalHeight), finalScale), Num(200)), Num(2)))
                 movedX == Add(imageOffsetX, Num(lastX' - lastX))
                 movedY == Add(imageOffsetY, Num(lastY' - lastY))
             IN  /\ isDragging /\ isDragging'
                 /\ imageOffsetX' = MathMax(Neg(maxX), MathMin(maxX, movedX))
                 /\ imageOffsetY' = MathMax(Neg(maxY), MathMin(maxY, movedY))
                 /\ UNCHANGED <<imageScale, baseCoverScale, naturalWidth,
                                naturalHeight>>
       /\ (/\ budget.move' = budget.move
           /\ budget.zoomIn' = budget.zoomIn
           /\ budget.zoomOut' = budget.zoomOut
           /\ loadPending' = loadPending) => UNCHANGED <<transformVars, preview>>]_vars

\* C15 witness: a drag from (0, 0) to (40, 10) has panned the 800 x 400
\* image at cover fit by 40 horizontally; vertically the clamp holds it at 0
C15_Dragged ==
    /\ isDragging
    /\ lastX = 40 /\ lastY = 10
    /\ budget.move = 0
    /\ naturalWidth = 800
    /\ imageOffsetX = Num(40)
    /\ imageOffsetY = Num(0)

\* C16: every exported image holds a photo draw and, after it, the overlay
\* draw of the exporting render, both made since the canvas was last
\* cleared, also when exports overlap.
C16_ExportsComposed ==
    \A e \in DOMAIN exported :
        LET image == exported[e].image
        IN  \E i, j \in DOMAIN image :
               /\ i < j
               /\ image[i].op = "photo"
               /\ image[j].op = "overlay"
               /\ image[j].rid = exported[e].rid

\* C17: the natural width and height and the cover scale a render computes
\* the photo's rectangle from are those of the image it paints.
C17_PhotoMatchesGeometry ==
    \A i \in DOMAIN canvas :
        canvas[i].op = "photo" =>
            LET w == NaturalWidthOf(canvas[i].src)
                h == NaturalHeightOf(canvas[i].src)
            IN  /\ canvas[i].used.naturalWidth = w
                /\ canvas[i].used.naturalHeight = h
                /\ canvas[i].used.baseCoverScale = CoverScale(w, h)

\* C18: a wheel event with deltaY = 0 leaves imageScale and both offsets
\* unchanged; a wheel event lowers imageScale only if its deltaY is positive
\* and raises it only if its deltaY is negative.
C18_NoMovementNoZoom ==
    [][\A d \in WheelDeltas :
          HandleZoom(d) =>
             /\ d = 0 => UNCHANGED <<imageScale, imageOffsetX, imageOffsetY>>
             /\ Less(imageScale', imageScale) => d > 0
             /\ Less(imageScale, imageScale') => d < 0]_vars

-----------------------------------------------------------------------------
(* Runs of wheel ticks in one direction *)

\* wheel events of a run in SpecRun
MaxRunTicks == 18

\* zoom-in ticks that precede a run
RunStartTicks == {0, 2, 9, 17}

\* the pointer movement of the drag that precedes a run
RunStartDrags == {<<0, 0>>, <<40, 10>>}

\* the transform handleZoom leaves, as a function of the one it finds
Zoomed(t, deltaY) ==
    ClampOffset([t EXCEPT !.imageScale = ZoomedScale(t.imageScale, deltaY)])

\* the transform after k zoom-in ticks
RECURSIVE ZoomedIn(_, _)
ZoomedIn(t, k) == IF k = 0 THEN t ELSE ZoomedIn(Zoomed(t, -100), k - 1)

\* a run starts with an image loaded, zoomed in by some ticks and dragged;
\* all its wheel events then go one way
InitRun ==
    /\ budget \in {[zoomIn |-> MaxRunTicks, zoomOut |-> 0, move |-> 0,
                    upload |-> 0, export |-> 0],
                   [zoomIn |-> 0, zoomOut |-> MaxRunTicks, move |-> 0,
                    upload |-> 0, export |-> 0]}
    /\ portraitSrc \in {"placeholder", "wide", "tall", "nodims"}
    /\ loadPending = FALSE
    /\ \E k \in RunStartTicks, d \in RunStartDrags :
         LET loaded == ResetImageTransform(NaturalWidthOf(portraitSrc),
                                           NaturalHeightOf(portraitSrc))
             t == Panned(ZoomedIn(loaded, k), d[1], d[2])
         IN  /\ imageScale = t.imageScale
             /\ imageOffsetX = t.imageOffsetX
             /\ imageOffsetY = t.imageOffsetY
             /\ baseCoverScale = t.baseCoverScale
             /\ naturalWidth = t.naturalWidth
             /\ naturalHeight = t.naturalHeight
             /\ preview = UpdateImagePreview(t)
             /\ lastX = d[1]
             /\ lastY = d[2]
    /\ isDragging = FALSE
    /\ overlayPresent = TRUE
    /\ overlayInlined = FALSE
    /\ overlayDom = InitialOverlay
    /\ svgStrings = <<>>
    /\ canvas = <<>>
    /\ renders = <<>>
    /\ exported = <<>>

NextRun == \E d \in WheelDeltas : HandleZoom(d)

\* the delivery of a wheel event, as the event budget shows it
WheelTick == \E k \in {"zoomIn", "zoomOut"} : CanSpend(k) /\ Spend(k)

\* the user keeps turning the wheel until the run is over
SpecRun == InitRun /\ [][NextRun]_vars /\ WF_budget(WheelTick)

====
